---- MODULE Spec2Model ----
(***************************************************************************)
(* Model of claimtrie/cmd/cmd/chain.go: the "chain convert" pipeline       *)
(* (getBlock -> processBlock -> saveChanges, two buffered channels and a   *)
(* WaitGroup) and the "chain replay" loop (Load, apply, appendBlock).      *)
(***************************************************************************)
EXTENDS Integers, Sequences, FiniteSets, TLC

\* ---------------------------------------------------------------- bounds
\* Highest chain tip (BestSnapshot().Height) of the ledgers convert is run on.
MaxTip == 4
\* Highest chain tip of the ledgers whose chain repo replay is run on.
MaxReplayTip == 3
\* Capacity of blockChan and of changesChan (1000 in the source, scaled): each
\* channel can hold several elements at once, so the order in which they leave
\* it is the channel's doing.
QueueCap == 2

\* ------------------------------------------------------ program constants
\* getBlock: toHeight := int32(200000)
DefaultToHeight == 200000
\* wire.MaxPrevOutIndex (all 32 bits set), the index of a coinbase input's
\* previous outpoint, as the signed value of the same bits
MaxPrevOutIndex == 0 - 1
\* cb.wg.Add(3)
Stages == 3

VARIABLES
    ledger,          \* the chain: ledger[h] is the shape of the block of height h
    height,          \* the --height flag of convert
    getPc, toHeight, ht,          \* getBlock: position, locals
    blockChan, blockChanClosed,   \* cb.blockChan (block heights stand for *Block)
    procPc, view, changes,        \* processBlock: position, utxo view, batch in hand
    changesChan, changesChanClosed,
    savePc,                       \* saveChanges: position
    repo,                         \* chain repo: saved height -> batch
    blocksFetched, blocksProcessed, changesSaved,   \* cb.stat
    wg, waited,                   \* WaitGroup counter, wait() returned
    exited,                       \* the run-time has ended the program after a panic
    readFailed, saveStopped,      \* history: getBlock / saveChanges left on error
    sent, processed, pushed, saveLog,  \* history: pushes, dequeues, Save calls
    fromHeight, toHeightFlag,     \* the --from and --to flags of replay
    replayPc, replayHt,           \* replay: position, loop variable ht
    loaded, next,                 \* replay: the batch of chainRepo.Load, index of the next change
    ct,                           \* the claim trie: height, changes pending, blocks appended
    replayErr,                    \* the error RunE returns ("" for nil)
    calls                         \* history: the calls replay has made, in order

vars == <<ledger, height, getPc, toHeight, ht, blockChan, blockChanClosed,
          procPc, view, changes, changesChan, changesChanClosed, savePc, repo,
          blocksFetched, blocksProcessed, changesSaved, wg, waited, exited,
          readFailed, saveStopped, sent, processed, pushed, saveLog,
          fromHeight, toHeightFlag, replayPc, replayHt, loaded, next, ct, replayErr,
          calls>>

replayVars == <<fromHeight, toHeightFlag, replayPc, replayHt, loaded, next, ct,
                replayErr, calls>>

\* ------------------------------------------------------------- the ledger
ZeroHash == <<0 - 1, 0 - 1>>
TxHash(h, i) == <<h, i>>
OutPoint(hash, n) == [hash |-> hash, index |-> n]

\* pkScripts, by what txscript.DecodeClaimScript makes of them
Plain == [kind |-> "plain", opcode |-> "OP_DUP", name |-> "", claimID |-> ""]
ClaimName(n) == [kind |-> "claim", opcode |-> "OP_CLAIMNAME", name |-> n, claimID |-> ""]
UpdateClaim(n, id) == [kind |-> "claim", opcode |-> "OP_UPDATECLAIM", name |-> n, claimID |-> id]
SupportClaim(n, id) == [kind |-> "claim", opcode |-> "OP_SUPPORTCLAIM", name |-> n, claimID |-> id]
Malformed == [kind |-> "malformed", opcode |-> "OP_CLAIMNAME", name |-> "", claimID |-> ""]

TxOut(v, pk) == [Value |-> v, PkScript |-> pk]
Tx(hash, ins, outs) == [hash |-> hash, TxIn |-> ins, TxOut |-> outs]
Coinbase(h) == Tx(TxHash(h, 0), <<OutPoint(ZeroHash, MaxPrevOutIndex)>>, <<TxOut(50, Plain)>>)

BlockShapes == {"empty", "claim", "spend", "two", "bad", "cbbad"}

\* The transactions of the block of height h and shape s. The coinbase of a
\* "claim" block carries a claim script in its second output; the coinbase of a
\* "cbbad" block carries a malformed one, which the second transaction spends.
BlockTxs(s, h) ==
    CASE s = "empty" -> <<Coinbase(h)>>
      [] s = "claim" ->
            <<Tx(TxHash(h, 0), <<OutPoint(ZeroHash, MaxPrevOutIndex)>>,
                 <<TxOut(50, Plain), TxOut(1, ClaimName("dave"))>>),
              Tx(TxHash(h, 1), <<OutPoint(TxHash(h - 1, 0), 0)>>,
                 <<TxOut(10, ClaimName("alice")), TxOut(3, SupportClaim("alice", "id1"))>>)>>
      [] s = "spend" ->
            <<Coinbase(h),
              Tx(TxHash(h, 1),
                 <<OutPoint(TxHash(h - 1, 1), 0), OutPoint(TxHash(h - 1, 0), 0),
                   OutPoint(TxHash(h - 1, 1), 1)>>,
                 <<TxOut(1, Plain), TxOut(5, UpdateClaim("alice", "id1")),
                   TxOut(2, SupportClaim("alice", "id1"))>>)>>
      [] s = "two" ->
            <<Coinbase(h),
              Tx(TxHash(h, 1), <<OutPoint(TxHash(h - 1, 0), 0)>>,
                 <<TxOut(7, ClaimName("bob")), TxOut(1, Plain),
                   TxOut(2, SupportClaim("bob", "id2"))>>),
              Tx(TxHash(h, 2), <<OutPoint(TxHash(h, 1), 2)>>,
                 <<TxOut(6, UpdateClaim("bob", "id2"))>>),
              Tx(TxHash(h, 3), <<OutPoint(TxHash(h, 2), 0), OutPoint(TxHash(h, 1), 0)>>,
                 <<TxOut(1, Plain)>>)>>
      [] s = "bad" ->
            <<Coinbase(h),
              Tx(TxHash(h, 1), <<OutPoint(TxHash(h - 1, 0), 0)>>,
                 <<TxOut(4, Malformed)>>)>>
      [] s = "cbbad" ->
            <<Tx(TxHash(h, 0), <<OutPoint(ZeroHash, MaxPrevOutIndex)>>,
                 <<TxOut(50, Plain), TxOut(1, Malformed)>>),
              Tx(TxHash(h, 1), <<OutPoint(TxHash(h, 0), 1)>>, <<TxOut(1, Plain)>>)>>

Block(s, h) == [Height |-> h, Transactions |-> BlockTxs(s, h)]

\* A chain is named by the shapes of its blocks 1..tip; block 0 is the genesis
\* block, which holds a coinbase only.
RECURSIVE ShapeSeqs(_)
ShapeSeqs(n) ==
    IF n = 0 THEN {<<>>}
    ELSE {Append(q, s) : q \in ShapeSeqs(n - 1), s \in BlockShapes}

LedgersUpTo(n) == UNION {ShapeSeqs(t) : t \in 0..n}
Ledgers == LedgersUpTo(MaxTip)
ReplayLedgers == LedgersUpTo(MaxReplayTip)

\* chain.BestSnapshot().Height
BestHeight(l) == Len(l)
\* chain.BlockByHeight(h), for a height on the chain
BlockByHeight(l, h) == IF h = 0 THEN Block("empty", 0) ELSE Block(l[h], h)

\* ---------------------------------------------------------- the Extractor
\* txscript.DecodeClaimScript: the claim script, or the error
DecodeClaimScript(pk) ==
    CASE pk.kind = "plain" -> [err |-> "ErrNotClaimScript", ok |-> FALSE]
      [] pk.kind = "malformed" -> [err |-> "ErrInvalidClaimScript", ok |-> FALSE]
      [] OTHER -> [err |-> "nil", ok |-> TRUE]

\* change.NewClaimID(outpoint): a digest of the outpoint
NewClaimID(op) == <<"claimID", op.hash, op.index>>
\* copy(chg.ClaimID[:], cs.ClaimID())
ScriptClaimID(pk) == <<"claimID", pk.claimID>>

\* blockchain.IsCoinBase
IsCoinBase(tx) ==
    /\ Len(tx.TxIn) = 1
    /\ tx.TxIn[1].index = MaxPrevOutIndex
    /\ tx.TxIn[1].hash = ZeroHash

\* view.AddTxOuts(tx, height): every output of tx enters the view
AddTxOuts(v, tx) ==
    v \cup {[op |-> OutPoint(tx.hash, i - 1), pkScript |-> tx.TxOut[i].PkScript] :
                i \in 1..Len(tx.TxOut)}

\* view.LookupEntry(op): the entries found (none: the nil entry)
LookupEntry(v, op) == {e \in v : e.op = op}

\* Mutant of SpendChange: the ClaimID is always copied from the script.
SpendChangeScriptID(h, op, cs) ==
    [Height |-> h, Name |-> cs.name, OutPoint |-> op, Amount |-> 0,
     Type |-> CASE cs.opcode = "OP_CLAIMNAME" -> "SpendClaim"
                [] cs.opcode = "OP_UPDATECLAIM" -> "SpendClaim"
                [] cs.opcode = "OP_SUPPORTCLAIM" -> "SpendSupport",
     ClaimID |-> <<"claimID", cs.claimID>>]

\* The change of a consumed input whose previous output carries claim script cs.
SpendChange(h, op, cs) ==
    [Height |-> h, Name |-> cs.name, OutPoint |-> op, Amount |-> 0,
     Type |-> CASE cs.opcode = "OP_CLAIMNAME" -> "SpendClaim"
                [] cs.opcode = "OP_UPDATECLAIM" -> "SpendClaim"
                [] cs.opcode = "OP_SUPPORTCLAIM" -> "SpendSupport",
     ClaimID |-> IF cs.opcode = "OP_CLAIMNAME" THEN NewClaimID(op) ELSE ScriptClaimID(cs)]

\* The change of a produced output carrying claim script cs.
OutputChange(h, op, txOut, cs) ==
    [Height |-> h, Name |-> cs.name, OutPoint |-> op, Amount |-> txOut.Value,
     Type |-> CASE cs.opcode = "OP_CLAIMNAME" -> "AddClaim"
                [] cs.opcode = "OP_SUPPORTCLAIM" -> "AddSupport"
                [] cs.opcode = "OP_UPDATECLAIM" -> "UpdateClaim",
     ClaimID |-> IF cs.opcode = "OP_CLAIMNAME" THEN NewClaimID(op) ELSE ScriptClaimID(cs)]

\* The element of a one-element set; {F(x) : x \in {e}} computes e once and
\* hands its value to F, where LET would compute e at every use of the name.
The(S) == CHOOSE x \in S : TRUE

\* A nil dereference: the goroutine panics.
Panic == [changes |-> <<>>, panic |-> TRUE]

\* Mutant of DecodeOutcome: every decode error skips the script.
DecodeOutcomeLenient(d) == IF d.ok THEN "change" ELSE "skip"

\* What both loops do with the result d of DecodeClaimScript: ErrNotClaimScript
\* is the `continue`; any other error leaves cs nil (the input loop logs it, the
\* output loop does not test it) and cs.Name() is a nil dereference.
DecodeOutcome(d) ==
    IF d.err = "ErrNotClaimScript" THEN "skip"
    ELSE IF ~d.ok THEN "panic"
    ELSE "change"

\* Mutant of MissingEntry: an input without an entry is skipped.
MissingEntrySkipped == "skip"

\* What the input loop does when view.LookupEntry returns nil: log.Criticalf
\* only logs, and e.PkScript() is a nil dereference.
MissingEntry == "panic"

\* The loop over tx.MsgTx().TxIn from input i on, acc the changes appended so
\* far. A nil entry (e.PkScript()) and a nil claim script (cs.Name()) are nil
\* dereferences: log.Criticalf only logs.
RECURSIVE InputChanges(_, _, _, _, _)
InputChanges(v, h, ins, i, acc) ==
    IF i > Len(ins) THEN [changes |-> acc, panic |-> FALSE]
    ELSE IF LookupEntry(v, ins[i]) = {}
    THEN IF MissingEntry = "panic" THEN Panic ELSE InputChanges(v, h, ins, i + 1, acc)
    ELSE LET e == CHOOSE x \in LookupEntry(v, ins[i]) : TRUE
             d == DecodeClaimScript(e.pkScript)
         IN  IF DecodeOutcome(d) = "skip" THEN InputChanges(v, h, ins, i + 1, acc)
             ELSE IF DecodeOutcome(d) = "panic" THEN Panic
             ELSE InputChanges(v, h, ins, i + 1,
                               Append(acc, SpendChange(h, ins[i], e.pkScript)))

\* The loop over tx.MsgTx().TxOut from output i on, acc the changes appended so
\* far. Only ErrNotClaimScript is tested: any other decode error leaves cs nil
\* and cs.Name() panics.
RECURSIVE OutputChanges(_, _, _, _)
OutputChanges(h, tx, i, acc) ==
    IF i > Len(tx.TxOut) THEN [changes |-> acc, panic |-> FALSE]
    ELSE LET d == DecodeClaimScript(tx.TxOut[i].PkScript)
         IN  IF DecodeOutcome(d) = "skip" THEN OutputChanges(h, tx, i + 1, acc)
             ELSE IF DecodeOutcome(d) = "panic" THEN Panic
             ELSE OutputChanges(h, tx, i + 1,
                                Append(acc, OutputChange(h, OutPoint(tx.hash, i - 1),
                                                         tx.TxOut[i], tx.TxOut[i].PkScript)))

\* Mutant of TxChanges: the output loop runs before the input loop.
TxChangesOutputsFirst(v, h, tx, acc) ==
    LET oc == OutputChanges(h, tx, 1, acc)
    IN  IF oc.panic THEN Panic ELSE InputChanges(v, h, tx.TxIn, 1, oc.changes)

\* One non-coinbase transaction of the loop body of processBlock: the changes of
\* its inputs are appended to acc, then the changes of its outputs.
TxChanges(v, h, tx, acc) ==
    The({IF ic.panic THEN Panic ELSE OutputChanges(h, tx, 1, ic.changes) :
            ic \in {InputChanges(v, h, tx.TxIn, 1, acc)}})

\* The view the input loop of transaction tx looks its inputs up in, v being the
\* view before the transaction: view.AddTxOuts(tx, ...) is the first statement
\* of the loop body, ahead of the loop over TxIn.
LookupView(v, tx) == AddTxOuts(v, tx)

\* The body of `for block := range cb.blockChan` up to the batch: the
\* transactions of block b from index i on, with view v and changes acc.
RECURSIVE BlockChanges(_, _, _, _)
BlockChanges(v, b, i, acc) ==
    IF i > Len(b.Transactions) THEN [changes |-> acc, view |-> v, panic |-> FALSE]
    ELSE IF IsCoinBase(b.Transactions[i])
    THEN BlockChanges(AddTxOuts(v, b.Transactions[i]), b, i + 1, acc)
    ELSE The(UNION {{IF tc.panic THEN [changes |-> <<>>, view |-> v1, panic |-> TRUE]
                     ELSE BlockChanges(v1, b, i + 1, tc.changes) :
                        tc \in {TxChanges(v1, b.Height, b.Transactions[i], acc)}} :
                    v1 \in {LookupView(v, b.Transactions[i])}})

\* The Extractor's batch for the block of height h of ledger l: the blocks
\* 0..h run through the loop body of processBlock in order.
RECURSIVE ExtractUpTo(_, _)
ExtractUpTo(l, h) ==
    IF h < 0 THEN [changes |-> <<>>, view |-> {}, panic |-> FALSE]
    ELSE LET prev == ExtractUpTo(l, h - 1)
         IN  IF prev.panic THEN prev
             ELSE BlockChanges(prev.view, BlockByHeight(l, h), 1, <<>>)
ExpectedBatch(l, h) == ExtractUpTo(l, h).changes

\* ------------------------------------------------------- the chain repo
\* chainRepo.Save(height, changes): creates or overwrites the batch of height
Save(r, h, batch) == [k \in (DOMAIN r) \cup {h} |-> IF k = h THEN batch ELSE r[k]]

\* ------------------------------------------------- the convert pipeline
\* The values given to `convert --height`.
HeightFlags == {1}

\* The claim trie claimtrie.New returns: height 0, nothing applied.
NewClaimTrie == [height |-> 0, pending |-> <<>>, blocks |-> <<>>]

\* The replay command is not running.
ReplayIdle ==
    /\ fromHeight = 0 /\ toHeightFlag = 0
    /\ replayPc = "off" /\ replayHt = 0
    /\ loaded = <<>> /\ next = 1
    /\ ct = NewClaimTrie
    /\ replayErr = ""
    /\ calls = <<>>

\* NewChainConvertCommand.RunE up to converter.start(): empty channels, a
\* WaitGroup of three, zeroed statistics; the chain repo starts empty.
Init ==
    /\ ledger \in Ledgers
    /\ height \in HeightFlags
    /\ getPc = "start" /\ toHeight = 0 /\ ht = 0
    /\ blockChan = <<>> /\ blockChanClosed = FALSE
    /\ procPc = "recv" /\ view = {} /\ changes = <<>>
    /\ changesChan = <<>> /\ changesChanClosed = FALSE
    /\ savePc = "open"
    /\ repo = <<>>
    /\ blocksFetched = 0 /\ blocksProcessed = 0 /\ changesSaved = 0
    /\ wg = Stages /\ waited = FALSE
    /\ exited = FALSE
    /\ readFailed = FALSE /\ saveStopped = FALSE
    /\ sent = <<>> /\ processed = <<>> /\ pushed = <<>> /\ saveLog = <<>>
    /\ ReplayIdle

getVars == <<getPc, toHeight, ht, blocksFetched, readFailed, sent>>
procVars == <<procPc, view, changes, blocksProcessed, processed, pushed>>
saveVars == <<savePc, repo, changesSaved, saveStopped, saveLog>>
inputVars == <<ledger, height, replayVars>>

\* Mutant of CanSend: a send never waits.
CanSendAlways(ch) == TRUE

\* make(chan ..., 1000): a send on a buffered channel goes through only while
\* the buffer holds fewer elements than its capacity; otherwise the sender waits.
CanSend(ch) == Len(ch) < QueueCap

\* The buffer of a channel once its i-th element has been received.
Received(ch, i) == SubSeq(ch, 1, i - 1) \o SubSeq(ch, i + 1, Len(ch))

\* getBlock, before its loop: toHeight is 200000, lowered to the tip height.
GetBlockBound(best) == IF DefaultToHeight > best THEN best ELSE DefaultToHeight

GetBlockStart ==
    /\ ~exited /\ getPc = "start"
    /\ toHeight' = GetBlockBound(BestHeight(ledger))
    /\ ht' = 0
    /\ getPc' = "loop"
    /\ UNCHANGED <<inputVars, blockChan, blockChanClosed, procVars, changesChan,
                   changesChanClosed, saveVars, blocksFetched, wg, waited, exited,
                   readFailed, sent>>

\* The loop condition of getBlock.
GetBlockMore(h, to) == h < to

\* getBlock, one iteration up to the send: BlockByHeight(ht) succeeds and the
\* block is counted, or it fails and the function returns.
GetBlockFetch ==
    /\ ~exited /\ getPc = "loop" /\ GetBlockMore(ht, toHeight)
    /\ \E ok \in BOOLEAN :
          IF ok
          THEN /\ blocksFetched' = blocksFetched + 1
               /\ getPc' = "send"
               /\ UNCHANGED readFailed
          ELSE /\ readFailed' = TRUE
               /\ getPc' = "return"
               /\ UNCHANGED blocksFetched
    /\ UNCHANGED <<inputVars, toHeight, ht, blockChan, blockChanClosed, procVars,
                   changesChan, changesChanClosed, saveVars, wg, waited, exited, sent>>

\* The height getBlock reads after height h.
GetBlockNextHeight(h) == h + 1

\* getBlock: cb.blockChan <- block, which waits while the channel is full; ht++.
GetBlockSend ==
    /\ ~exited /\ getPc = "send"
    /\ CanSend(blockChan)
    /\ blockChan' = Append(blockChan, BlockByHeight(ledger, ht).Height)
    /\ sent' = Append(sent, BlockByHeight(ledger, ht).Height)
    /\ ht' = GetBlockNextHeight(ht)
    /\ getPc' = "loop"
    /\ UNCHANGED <<inputVars, toHeight, blockChanClosed, procVars, changesChan,
                   changesChanClosed, saveVars, blocksFetched, wg, waited, exited,
                   readFailed>>

\* Mutant of GetBlockReturn: close(cb.blockChan) is not deferred but follows the
\* loop, so the return on a read error leaves the channel open.
GetBlockReturnOpenOnError ==
    /\ ~exited
    /\ \/ getPc = "loop" /\ ~GetBlockMore(ht, toHeight)
       \/ getPc = "return"
    /\ blockChanClosed' = (getPc = "loop")
    /\ wg' = wg - 1
    /\ getPc' = "done"
    /\ UNCHANGED <<inputVars, toHeight, ht, blockChan, procVars, changesChan,
                   changesChanClosed, saveVars, blocksFetched, waited, exited,
                   readFailed, sent>>

\* getBlock returns (loop over, or read error): the deferred close(cb.blockChan)
\* and cb.wg.Done() run.
GetBlockReturn ==
    /\ ~exited
    /\ \/ getPc = "loop" /\ ~GetBlockMore(ht, toHeight)
       \/ getPc = "return"
    /\ blockChanClosed' = TRUE
    /\ wg' = wg - 1
    /\ getPc' = "done"
    /\ UNCHANGED <<inputVars, toHeight, ht, blockChan, procVars, changesChan,
                   changesChanClosed, saveVars, blocksFetched, waited, exited,
                   readFailed, sent>>

\* Mutant of ProcessBlockNext: the newest block in the buffer is received.
ProcessBlockNextNewest(ch) == Len(ch)

\* `for block := range cb.blockChan`: the place in the buffer of the element
\* handed to the loop body. A Go channel is first in, first out.
ProcessBlockNext(ch) == 1

\* Mutant of ProcessBlockAfter: the batch is sent whether empty or not.
ProcessBlockAfterAlwaysSends(chgs) == "send"

\* processBlock, after blocksProcessed++: `if len(changes) != 0` the batch is
\* sent, otherwise the loop goes on to the next block.
ProcessBlockAfter(chgs) == IF Len(chgs) # 0 THEN "send" ELSE "recv"

\* processBlock: `for block := range cb.blockChan` receives a block and runs the
\* body up to blocksProcessed++. A nil dereference in the body panics: the
\* goroutine's deferred close(cb.changesChan) and cb.wg.Done() run, and the
\* other goroutines go on until the run-time ends the program (PanicExit).
ProcessBlockRecv ==
    /\ ~exited /\ procPc = "recv"
    /\ blockChan # <<>>
    /\ \E h \in {blockChan[ProcessBlockNext(blockChan)]} :
       \E r \in {BlockChanges(view, BlockByHeight(ledger, h), 1, <<>>)} :
           /\ blockChan' = Received(blockChan, ProcessBlockNext(blockChan))
           /\ processed' = Append(processed, h)
           /\ IF r.panic
              THEN /\ procPc' = "panic"
                   /\ changesChanClosed' = TRUE
                   /\ wg' = wg - 1
                   /\ UNCHANGED <<view, changes, blocksProcessed>>
              ELSE /\ view' = r.view
                   /\ changes' = r.changes
                   /\ blocksProcessed' = blocksProcessed + 1
                   /\ procPc' = ProcessBlockAfter(r.changes)
                   /\ UNCHANGED <<changesChanClosed, wg>>
    /\ UNCHANGED <<inputVars, getVars, blockChanClosed, changesChan, saveVars, waited,
                   exited, pushed>>

\* processBlock: cb.changesChan <- changes, which waits while the channel is full.
ProcessBlockSend ==
    /\ ~exited /\ procPc = "send"
    /\ CanSend(changesChan)
    /\ changesChan' = Append(changesChan, changes)
    /\ pushed' = Append(pushed, changes)
    /\ changes' = <<>>
    /\ procPc' = "recv"
    /\ UNCHANGED <<inputVars, getVars, blockChan, blockChanClosed, view,
                   blocksProcessed, processed, changesChanClosed, saveVars,
                   wg, waited, exited>>

\* Mutant of ProcessBlockReturn: close(cb.changesChan) is not deferred.
ProcessBlockReturnNoClose ==
    /\ ~exited /\ procPc = "recv"
    /\ blockChan = <<>> /\ blockChanClosed
    /\ wg' = wg - 1
    /\ procPc' = "done"
    /\ UNCHANGED <<inputVars, getVars, blockChan, blockChanClosed, view, changes,
                   blocksProcessed, processed, pushed, changesChan, changesChanClosed,
                   saveVars, waited, exited>>

\* processBlock returns once blockChan is closed and drained: the deferred
\* close(cb.changesChan) and cb.wg.Done() run.
ProcessBlockReturn ==
    /\ ~exited /\ procPc = "recv"
    /\ blockChan = <<>> /\ blockChanClosed
    /\ changesChanClosed' = TRUE
    /\ wg' = wg - 1
    /\ procPc' = "done"
    /\ UNCHANGED <<inputVars, getVars, blockChan, blockChanClosed, view, changes,
                   blocksProcessed, processed, pushed, changesChan, saveVars, waited,
                   exited>>

\* The panic of processBlock, once its deferred calls have run, ends the
\* program (exit status 2): every goroutine stops where it is.
PanicExit ==
    /\ ~exited /\ procPc = "panic"
    /\ exited' = TRUE
    /\ UNCHANGED <<inputVars, getVars, blockChan, blockChanClosed, procVars,
                   changesChan, changesChanClosed, saveVars, wg, waited>>

\* saveChanges: chainrepo.NewPebble succeeds, or fails and the function returns.
SaveChangesOpen ==
    /\ ~exited /\ savePc = "open"
    /\ \E ok \in BOOLEAN :
          IF ok
          THEN /\ savePc' = "loop"
               /\ UNCHANGED <<saveStopped, wg>>
          ELSE /\ savePc' = "done"
               /\ saveStopped' = TRUE
               /\ wg' = wg - 1
    /\ UNCHANGED <<inputVars, getVars, blockChan, blockChanClosed, procVars,
                   changesChan, changesChanClosed, repo, changesSaved, saveLog, waited,
                   exited>>

\* Mutant of SaveChangesOnError: the loop goes on to the next batch.
SaveChangesOnErrorContinues == "loop"

\* What saveChanges does after a failed Save: it returns.
SaveChangesOnError == "done"

\* Mutant of SaveChangesNext: the newest batch in the buffer is received.
SaveChangesNextNewest(ch) == Len(ch)

\* `for changes := range cb.changesChan`: the place in the buffer of the batch
\* handed to the loop body. A Go channel is first in, first out.
SaveChangesNext(ch) == 1

\* saveChanges: `for changes := range cb.changesChan` receives a batch and
\* calls Save(changes[0].Height, changes); a failure ends the stage.
SaveChangesRecv ==
    /\ ~exited /\ savePc = "loop"
    /\ changesChan # <<>>
    /\ LET batch == changesChan[SaveChangesNext(changesChan)]
           key == batch[1].Height
       IN  /\ changesChan' = Received(changesChan, SaveChangesNext(changesChan))
           /\ \E ok \in BOOLEAN :
                 /\ saveLog' = Append(saveLog, [height |-> key, ok |-> ok])
                 /\ IF ok
                    THEN /\ repo' = Save(repo, key, batch)
                         /\ changesSaved' = changesSaved + 1
                         /\ UNCHANGED <<savePc, saveStopped, wg>>
                    ELSE /\ savePc' = SaveChangesOnError
                         /\ saveStopped' = TRUE
                         /\ wg' = IF SaveChangesOnError = "done" THEN wg - 1 ELSE wg
                         /\ UNCHANGED <<repo, changesSaved>>
    /\ UNCHANGED <<inputVars, getVars, blockChan, blockChanClosed, procVars,
                   changesChanClosed, waited, exited>>

\* saveChanges returns once changesChan is closed and drained: the deferred
\* chainRepo.Close() and cb.wg.Done() run.
SaveChangesReturn ==
    /\ ~exited /\ savePc = "loop"
    /\ changesChan = <<>> /\ changesChanClosed
    /\ savePc' = "done"
    /\ wg' = wg - 1
    /\ UNCHANGED <<inputVars, getVars, blockChan, blockChanClosed, procVars,
                   changesChan, changesChanClosed, repo, changesSaved, saveStopped,
                   saveLog, waited, exited>>

\* converter.wait(): cc.wg.Wait() returns once the counter is zero.
Wait ==
    /\ ~exited /\ ~waited
    /\ wg = 0
    /\ waited' = TRUE
    /\ UNCHANGED <<inputVars, getVars, blockChan, blockChanClosed, procVars,
                   changesChan, changesChanClosed, saveVars, wg, exited>>

GetBlock == GetBlockStart \/ GetBlockFetch \/ GetBlockSend \/ GetBlockReturn
ProcessBlock == ProcessBlockRecv \/ ProcessBlockSend \/ ProcessBlockReturn
SaveChanges == SaveChangesOpen \/ SaveChangesRecv \/ SaveChangesReturn

Next == GetBlock \/ SaveChanges \/ Wait \/ PanicExit \/ ProcessBlock

Spec == Init /\ [][Next]_vars

\* The Go scheduler never leaves every runnable goroutine waiting: while some
\* step of the pipeline can be taken, one is taken.
FairSpec == Spec /\ WF_vars(Next)

\* ------------------------------------------------------------ the replay
\* The values given to `replay --from`.
FromFlags == {0, 1}

\* Chains whose blocks the Extractor gets through.
WellFormed(l) == ~ExtractUpTo(l, BestHeight(l)).panic

\* The chain repo a complete convert of ledger l leaves behind.
Converted(l) ==
    [h \in {k \in 1..BestHeight(l) : ExpectedBatch(l, k) # <<>>} |-> ExpectedBatch(l, h)]
\* The same with the batch of height h altered: a name changed, a type that is
\* none of the five, or the batch missing.
Renamed(r, h) == [r EXCEPT ![h][1].Name = "mallory"]
Mistyped(r, h) == [r EXCEPT ![h][Len(r[h])].Type = "Unknown"]
Dropped(r, h) == [k \in (DOMAIN r) \ {h} |-> r[k]]
Stores(l) ==
    {Converted(l)} \cup
    UNION {{Renamed(Converted(l), h), Mistyped(Converted(l), h), Dropped(Converted(l), h)} :
              h \in DOMAIN Converted(l)}

\* chainRepo.Load(height): the batch, or pebble.ErrNotFound
Load(r, h) ==
    IF h \in DOMAIN r THEN [changes |-> r[h], err |-> "nil"]
    ELSE [changes |-> <<>>, err |-> "ErrNotFound"]

\* The claim trie, a black box: its state is what was applied to it, block by
\* block, and its Merkle hash is a digest of that state.
Mutate(t, call) == [t EXCEPT !.pending = Append(@, call)]
AppendBlock(t) ==
    [height |-> t.height + 1, pending |-> <<>>, blocks |-> Append(t.blocks, t.pending)]
MerkleHash(t) == <<"merkle", t.blocks>>

\* Mutant of ChangeOp: the SpendSupport case calls SpendClaim.
ChangeOpSpendMixed(type) ==
    CASE type = "AddClaim" -> "AddClaim"
      [] type = "UpdateClaim" -> "UpdateClaim"
      [] type = "SpendClaim" -> "SpendClaim"
      [] type = "AddSupport" -> "AddSupport"
      [] type = "SpendSupport" -> "SpendClaim"
      [] OTHER -> "invalid"

\* The switch on chg.Type: the claim trie operation called, with its arguments.
ChangeOp(type) ==
    CASE type = "AddClaim" -> "AddClaim"
      [] type = "UpdateClaim" -> "UpdateClaim"
      [] type = "SpendClaim" -> "SpendClaim"
      [] type = "AddSupport" -> "AddSupport"
      [] type = "SpendSupport" -> "SpendSupport"
      [] OTHER -> "invalid"
ChangeCall(chg) ==
    [op |-> ChangeOp(chg.Type), Name |-> chg.Name, OutPoint |-> chg.OutPoint,
     ClaimID |-> chg.ClaimID,
     Amount |-> IF ChangeOp(chg.Type) \in {"SpendClaim", "SpendSupport"} THEN 0 ELSE chg.Amount]
BatchCalls(batch) == [i \in 1..Len(batch) |-> ChangeCall(batch[i])]

\* block.MsgBlock().Header.ClaimTrie of the block of height h: the hash of the
\* claim trie that has taken in the claim activity of the blocks 1..h.
HeaderClaimTrie(l, h) == <<"merkle", [k \in 1..h |-> BatchCalls(ExpectedBatch(l, k))]>>

Call(c, h, i, ok) == [call |-> c, height |-> h, index |-> i, ok |-> ok]

\* NewChainReplayCommand.RunE is entered: nothing deleted or opened yet.
ReplayInit ==
    /\ ledger \in {l \in ReplayLedgers : WellFormed(l)}
    /\ repo \in Stores(ledger)
    /\ fromHeight \in FromFlags
    /\ toHeightFlag \in 0..(BestHeight(ledger) + 1)
    /\ replayPc = "start" /\ replayHt = 0
    /\ loaded = <<>> /\ next = 1
    /\ ct = NewClaimTrie
    /\ replayErr = ""
    /\ calls = <<>>
    /\ height = 0
    /\ getPc = "off" /\ toHeight = 0 /\ ht = 0
    /\ blockChan = <<>> /\ blockChanClosed = FALSE
    /\ procPc = "off" /\ view = {} /\ changes = <<>>
    /\ changesChan = <<>> /\ changesChanClosed = FALSE
    /\ savePc = "off"
    /\ blocksFetched = 0 /\ blocksProcessed = 0 /\ changesSaved = 0
    /\ wg = 0 /\ waited = FALSE
    /\ exited = FALSE
    /\ readFailed = FALSE /\ saveStopped = FALSE
    /\ sent = <<>> /\ processed = <<>> /\ pushed = <<>> /\ saveLog = <<>>

convertVars == <<ledger, height, getPc, toHeight, ht, blockChan, blockChanClosed,
                 procPc, view, changes, changesChan, changesChanClosed, savePc, repo,
                 blocksFetched, blocksProcessed, changesSaved, wg, waited, exited,
                 readFailed, saveStopped, sent, processed, pushed, saveLog>>

\* RunE before its loop: the derived repos are deleted, the chain repo is
\* opened, the claim trie is created, the chain is loaded; any failure returns.
ReplayStart ==
    /\ replayPc = "start"
    /\ \E ok \in BOOLEAN :
          IF ok
          THEN /\ replayPc' = "load"
               /\ replayHt' = fromHeight
               /\ ct' = NewClaimTrie
               /\ UNCHANGED replayErr
          ELSE /\ replayPc' = "failed"
               /\ replayErr' = "setup"
               /\ UNCHANGED <<replayHt, ct>>
    /\ UNCHANGED <<convertVars, fromHeight, toHeightFlag, loaded, next, calls>>

\* Mutant of ReplayAfterLoad: not-found is returned like any other error.
ReplayAfterLoadStrict(err) == IF err = "nil" THEN "apply" ELSE "failed"

\* What replay does with the error of chainRepo.Load: not-found is let through
\* with no changes, any other error returns.
ReplayAfterLoad(err) ==
    CASE err = "nil" -> "apply"
      [] err = "ErrNotFound" -> "apply"
      [] OTHER -> "failed"

\* The loop of replay, top of an iteration: changes, err := chainRepo.Load(ht + 1).
ReplayLoad ==
    /\ replayPc = "load" /\ replayHt < toHeightFlag
    /\ \E res \in {Load(repo, replayHt + 1), [changes |-> <<>>, err |-> "io"]} :
          /\ calls' = Append(calls, Call("Load", replayHt + 1, 0, res.err))
          /\ replayPc' = ReplayAfterLoad(res.err)
          /\ IF ReplayAfterLoad(res.err) = "failed"
             THEN /\ replayErr' = "load changes"
                  /\ UNCHANGED <<loaded, next>>
             ELSE /\ loaded' = res.changes
                  /\ next' = 1
                  /\ UNCHANGED replayErr
    /\ UNCHANGED <<convertVars, fromHeight, toHeightFlag, replayHt, ct>>

\* The loop over the loaded changes, one change: the switch calls the claim
\* trie operation of chg.Type, which may fail; the default branch is an error.
ReplayApply ==
    /\ replayPc = "apply" /\ next <= Len(loaded)
    /\ \E chg \in {loaded[next]} :
          IF ChangeOp(chg.Type) = "invalid"
          THEN /\ calls' = Append(calls, Call("invalid", replayHt + 1, next, "error"))
               /\ replayPc' = "failed"
               /\ replayErr' = "execute change"
               /\ UNCHANGED <<ct, next>>
          ELSE \E ok \in BOOLEAN :
                 /\ calls' = Append(calls, Call(ChangeOp(chg.Type), replayHt + 1, next,
                                                IF ok THEN "nil" ELSE "error"))
                 /\ IF ok
                    THEN /\ ct' = Mutate(ct, ChangeCall(chg))
                         /\ next' = next + 1
                         /\ UNCHANGED <<replayPc, replayErr>>
                    ELSE /\ replayPc' = "failed"
                         /\ replayErr' = "execute change"
                         /\ UNCHANGED <<ct, next>>
    /\ UNCHANGED <<convertVars, fromHeight, toHeightFlag, replayHt, loaded>>

\* Mutant of HashCheck: a differing hash is no error.
HashCheckSkipped(got, exp) == "nil"

\* appendBlock, the comparison: the error for the trie hash got and the header
\* hash expected.
HashCheck(got, exp) == IF got # exp THEN "hash mismatched" ELSE "nil"

\* After the loop over the changes: appendBlock(ct, chain), that is
\* ct.AppendBlock(), chain.BlockByHeight(ct.Height()) and the hash comparison,
\* each of which may return an error; then ht++.
ReplayAppendBlock ==
    /\ replayPc = "apply" /\ next > Len(loaded)
    /\ \E appended \in BOOLEAN, read \in BOOLEAN :
          IF ~appended
          THEN /\ calls' = Append(calls, Call("AppendBlock", replayHt + 1, 0, "error"))
               /\ replayPc' = "failed"
               /\ replayErr' = "append block"
               /\ UNCHANGED <<ct, replayHt>>
          ELSE /\ ct' = AppendBlock(ct)
               /\ IF ~read \/ ct'.height > BestHeight(ledger)
                  THEN /\ calls' = calls \o <<Call("AppendBlock", replayHt + 1, 0, "nil"),
                                               Call("BlockByHeight", ct'.height, 0, "error")>>
                       /\ replayPc' = "failed"
                       /\ replayErr' = "load from block repo"
                       /\ UNCHANGED replayHt
                  ELSE \E e \in {HashCheck(MerkleHash(ct'), HeaderClaimTrie(ledger, ct'.height))} :
                       /\ calls' = calls \o <<Call("AppendBlock", replayHt + 1, 0, "nil"),
                                               Call("BlockByHeight", ct'.height, 0, "nil"),
                                               Call("Compare", ct'.height, 0, e)>>
                       /\ IF e = "nil"
                          THEN /\ replayHt' = replayHt + 1
                               /\ replayPc' = "load"
                               /\ UNCHANGED replayErr
                          ELSE /\ replayPc' = "failed"
                               /\ replayErr' = e
                               /\ UNCHANGED replayHt
    /\ UNCHANGED <<convertVars, fromHeight, toHeightFlag, loaded, next>>

\* The loop of replay is over: RunE returns nil.
ReplayReturn ==
    /\ replayPc = "load" /\ ~(replayHt < toHeightFlag)
    /\ replayPc' = "done"
    /\ UNCHANGED <<convertVars, fromHeight, toHeightFlag, replayHt, loaded, next, ct,
                   replayErr, calls>>

ReplayNext == ReplayStart \/ ReplayLoad \/ ReplayApply \/ ReplayAppendBlock \/ ReplayReturn

ReplaySpec == ReplayInit /\ [][ReplayNext]_vars

\* ------------------------------------------------------------ properties
\* processBlock has panicked (the program may not have ended yet).
Panicked == procPc = "panic"
NoStageFailed == ~readFailed /\ ~saveStopped /\ ~Panicked
Min(a, b) == IF a < b THEN a ELSE b
Tip == BestHeight(ledger)

\* C1: once the persist stage has stopped on a failure, the other stages still
\* run to completion and wait() returns, however many batches are still to come
\* (runs ended by a panic of the extract stage are left aside).
C1_PersistFailureStillTerminates ==
    saveStopped ~> (Panicked \/ (waited /\ blockChanClosed /\ changesChanClosed))

\* The pipeline has wound down with nothing left behind.
DrainedAndSaved ==
    /\ getPc = "done" /\ procPc = "done" /\ savePc = "done"
    /\ blockChanClosed /\ blockChan = <<>>
    /\ changesChanClosed /\ changesChan = <<>>
    /\ blocksProcessed = blocksFetched /\ processed = sent
    /\ changesSaved = Len(pushed)
    /\ Len(saveLog) = Len(pushed)
    /\ \A i \in 1..Len(pushed) :
          /\ saveLog[i].ok
          /\ saveLog[i].height \in DOMAIN repo
          /\ repo[saveLog[i].height] = pushed[i]
\* C2: when no stage fails the pipeline terminates: wait() returns, and when it
\* has returned both queues are closed and empty, every fetched block has been
\* processed and every pushed batch has been saved.
C2_TerminatesWhenNoStageFails ==
    /\ [](waited /\ NoStageFailed => DrainedAndSaved)
    /\ <>(~NoStageFailed \/ waited)
C2_Witness ==
    waited /\ NoStageFailed /\ Len(pushed) >= 2 /\ Len(sent) = MaxTip

\* C3: after a failure-free convert the repo holds exactly the Extractor's batch
\* of every height 1..tip that has claim activity, the tip included.
C3_RepoCoversUpToTip ==
    (waited /\ NoStageFailed) =>
        /\ \A h \in 1..Tip :
              ExpectedBatch(ledger, h) # <<>> =>
                  h \in DOMAIN repo /\ repo[h] = ExpectedBatch(ledger, h)
        /\ \A h \in DOMAIN repo : h \in 1..Tip /\ ExpectedBatch(ledger, h) # <<>>

\* C4: the upper bound of the heights getBlock reads is min(H, tip), H the
\* value of --height.
C4_BoundIsMinOfFlagAndTip ==
    getPc # "start" => toHeight = Min(height, Tip)

\* C5: blocks are pushed onto blockChan in gapless increasing height order from
\* 0, and processBlock dequeues them in the same order, none skipped or twice.
C5_BlocksInHeightOrder ==
    /\ \A i \in 1..Len(sent) : sent[i] = i - 1
    /\ \A i \in 1..Len(processed) : processed[i] = i - 1
    /\ Len(processed) <= Len(sent)
    /\ sent = processed \o blockChan
C5_Witness ==
    /\ Len(processed) = 2 /\ Len(blockChan) = 2
    /\ Len(sent) = MaxTip

\* Where a change of a batch was discovered in its block: <<transaction index,
\* side (0 input, 1 output), index of the input or output>>.
IsSpend(c) == c.Type \in {"SpendClaim", "SpendSupport"}
IsCreate(c) == c.Type \in {"AddClaim", "UpdateClaim", "AddSupport"}
Discovery(l, c) ==
    LET txs == BlockByHeight(l, c.Height).Transactions
    IN  IF IsSpend(c)
        THEN LET k == CHOOSE k \in 1..Len(txs) :
                        ~IsCoinBase(txs[k]) /\ \E n \in 1..Len(txs[k].TxIn) : txs[k].TxIn[n] = c.OutPoint
                 n == CHOOSE n \in 1..Len(txs[k].TxIn) : txs[k].TxIn[n] = c.OutPoint
             IN  <<k, 0, n>>
        ELSE LET k == CHOOSE k \in 1..Len(txs) : txs[k].hash = c.OutPoint.hash
             IN  <<k, 1, c.OutPoint.index + 1>>
Before(a, b) ==
    \/ a[1] < b[1]
    \/ a[1] = b[1] /\ a[2] < b[2]
    \/ a[1] = b[1] /\ a[2] = b[2] /\ a[3] < b[3]

\* The pkScript of the ledger output an outpoint names.
LedgerScript(l, op) ==
    BlockByHeight(l, op.hash[1]).Transactions[op.hash[2] + 1].TxOut[op.index + 1].PkScript
IsClaimBearing(pk) == pk.kind = "claim"
\* The claim-bearing consumed inputs and produced outputs of the block of height h.
ClaimSites(l, h) ==
    LET txs == BlockByHeight(l, h).Transactions
        real == {k \in 1..Len(txs) : ~IsCoinBase(txs[k])}
        ins(k) == {n \in 1..Len(txs[k].TxIn) :
                      IsClaimBearing(LedgerScript(l, txs[k].TxIn[n]))}
        outs(k) == {n \in 1..Len(txs[k].TxOut) : IsClaimBearing(txs[k].TxOut[n].PkScript)}
    IN  UNION {{<<k, 0, n>> : n \in ins(k)} \cup {<<k, 1, n>> : n \in outs(k)} : k \in real}

\* C6: in every batch the Extractor produces the records follow discovery
\* order: transactions in block order, and within a transaction one spend-side
\* change per claim-bearing input, in input order, then one creation-side change
\* per claim-bearing output, in output order.
C6_BatchInDiscoveryOrder ==
    \A b \in 1..Len(pushed) :
        LET batch == pushed[b]
        IN  /\ \A i \in 1..Len(batch) : IsSpend(batch[i]) \/ IsCreate(batch[i])
            /\ \A i, j \in 1..Len(batch) :
                  i < j => Before(Discovery(ledger, batch[i]), Discovery(ledger, batch[j]))
            /\ {Discovery(ledger, batch[i]) : i \in 1..Len(batch)}
                  = ClaimSites(ledger, batch[1].Height)
C6_Witness ==
    \E b \in 1..Len(pushed) :
        /\ Len(pushed[b]) = 4
        /\ pushed[b][1].Type = "SpendClaim" /\ pushed[b][2].Type = "SpendSupport"
        /\ pushed[b][3].Type = "UpdateClaim" /\ pushed[b][4].Type = "AddSupport"

\* C10: saveChanges calls Save for the pushed batches in production order and
\* makes no call after one that failed; changesSaved counts the successful calls.
C10_NoSaveAfterFailure ==
    /\ Len(saveLog) <= Len(pushed)
    /\ \A i \in 1..Len(saveLog) :
          /\ saveLog[i].height = pushed[i][1].Height
          /\ i < Len(saveLog) => saveLog[i].ok
    /\ changesSaved = Cardinality({i \in 1..Len(saveLog) : saveLog[i].ok})
    /\ DOMAIN repo = {saveLog[i].height : i \in {j \in 1..Len(saveLog) : saveLog[j].ok}}
C10_Witness ==
    /\ Len(saveLog) = 1 /\ ~saveLog[1].ok
    /\ Len(pushed) = 2 /\ procPc = "done"

\* The hash the claim trie had when its height was k.
HashAt(k) == <<"merkle", SubSeq(ct.blocks, 1, k)>>
Returned(err) == err \notin {"nil", "ErrNotFound"}

\* C7: replay aborts at the first height whose hash differs from the header's:
\* no height behind the trie's current one differs, a differing current height
\* means replay has returned the error, and after that nothing more is loaded,
\* applied or appended.
C7_AbortsAtFirstMismatch ==
    /\ \A k \in 1..ct.height :
          (k <= Tip /\ HashAt(k) # HeaderClaimTrie(ledger, k)) =>
              k = ct.height /\ replayPc = "failed" /\ ct.pending = <<>>
    /\ \A p \in 1..Len(calls) :
          (calls[p].call = "Compare" /\ calls[p].ok # "nil") =>
              /\ p = Len(calls) /\ calls[p].height = ct.height
              /\ replayPc = "failed" /\ replayErr = "hash mismatched"
    /\ replayPc = "failed" => ~ENABLED ReplayNext
C7_Witness ==
    /\ replayPc = "failed" /\ replayErr = "hash mismatched"
    /\ ct.height = 2 /\ replayHt + 2 < toHeightFlag + 1
    /\ (replayHt + 2) \in DOMAIN repo

\* C8: a Load that finds nothing is an empty batch: no mutation follows it, the
\* trie is advanced and checked, and replay goes on to the next height. A Load
\* that fails otherwise ends replay before any mutation or AppendBlock.
C8_NotFoundIsEmptyBatch ==
    \A p \in 1..Len(calls) :
        calls[p].call = "Load" =>
            /\ calls[p].ok = "ErrNotFound" =>
                  /\ calls[p].height \notin DOMAIN repo
                  /\ IF p = Len(calls)
                     THEN replayPc = "apply" /\ loaded = <<>> /\ next = 1 /\ ct.pending = <<>>
                     ELSE calls[p + 1].call = "AppendBlock"
                  /\ (p + 3 <= Len(calls) /\ calls[p + 3] = Call("Compare", calls[p + 3].height, 0, "nil")) =>
                        IF p + 3 = Len(calls)
                        THEN replayPc \in {"load", "done"} /\ replayHt = calls[p].height
                        ELSE calls[p + 4].call = "Load" /\ calls[p + 4].height = calls[p].height + 1
            /\ Returned(calls[p].ok) =>
                  /\ p = Len(calls) /\ replayPc = "failed"
                  /\ ct.pending = <<>>
                  /\ ct.height = Cardinality({q \in 1..p : calls[q] = Call("AppendBlock", calls[q].height, 0, "nil")})
C8_Witness ==
    \E p \in 1..Len(calls) :
        /\ calls[p].call = "Load" /\ calls[p].ok = "ErrNotFound"
        /\ p + 4 <= Len(calls) /\ calls[p + 4].call = "Load"

\* The five change types, the batch stored for a height, and a claim trie call
\* that carries a change.
MutationOps == {"AddClaim", "UpdateClaim", "SpendClaim", "AddSupport", "SpendSupport"}
StoredBatch(h) == IF h \in DOMAIN repo THEN repo[h] ELSE <<>>
AppliedAs(call, chg) ==
    /\ call.op = chg.Type /\ call.Name = chg.Name
    /\ call.OutPoint = chg.OutPoint /\ call.ClaimID = chg.ClaimID
\* C9: in every replay step the changes of the loaded batch are applied in
\* stored order, each through the operation of its Type, then AppendBlock is
\* called once, then the hash is checked; the next batch is loaded only after
\* that; a change of no known Type or a failing mutation ends replay before
\* AppendBlock.
C9_StepOrder ==
    /\ \A p \in 1..Len(calls) :
          LET c == calls[p]
              batch == StoredBatch(c.height)
          IN  /\ c.call \in MutationOps \cup {"invalid"} =>
                    /\ c.index \in 1..Len(batch)
                    /\ IF batch[c.index].Type \in MutationOps
                       THEN c.call = batch[c.index].Type
                       ELSE c.call = "invalid" /\ c.ok = "error"
                    /\ p > 1
                    /\ IF c.index = 1
                       THEN calls[p - 1] = Call("Load", c.height, 0, "nil")
                       ELSE calls[p - 1] = Call(batch[c.index - 1].Type, c.height, c.index - 1, "nil")
              /\ c.call = "AppendBlock" =>
                    /\ p > 1
                    /\ IF Len(batch) = 0
                       THEN calls[p - 1].call = "Load" /\ calls[p - 1].height = c.height
                       ELSE calls[p - 1] = Call(batch[Len(batch)].Type, c.height, Len(batch), "nil")
              /\ c.call = "BlockByHeight" =>
                    calls[p - 1].call = "AppendBlock" /\ calls[p - 1].ok = "nil"
              /\ c.call = "Compare" =>
                    calls[p - 1] = Call("BlockByHeight", c.height, 0, "nil")
              /\ (c.call = "Load" /\ p > 1) =>
                    calls[p - 1].call = "Compare" /\ calls[p - 1].ok = "nil"
              /\ Returned(c.ok) => p = Len(calls) /\ replayPc = "failed"
    /\ ct.height = Len(ct.blocks)
    /\ \A k \in 1..Len(ct.blocks) :
          /\ Len(ct.blocks[k]) = Len(StoredBatch(fromHeight + k))
          /\ \A i \in 1..Len(ct.blocks[k]) :
                AppliedAs(ct.blocks[k][i], StoredBatch(fromHeight + k)[i])
    /\ replayPc = "apply" =>
          /\ Len(ct.pending) = next - 1
          /\ \A i \in 1..Len(ct.pending) : AppliedAs(ct.pending[i], loaded[i])
C9_Witness ==
    \E p \in 1..Len(calls) :
        /\ p > 4
        /\ calls[p].call = "Compare" /\ calls[p].ok = "nil"
        /\ calls[p - 2].call = "AppendBlock"
        /\ calls[p - 3].call = "AddSupport" /\ calls[p - 3].index = 4
        /\ calls[p - 5].call = "SpendSupport"

\* C11: each channel holds at most QueueCap elements; a stage whose send finds
\* its channel full takes no step until the channel has room again; and
\* blocksFetched is never more than QueueCap + 1 ahead of the number of blocks
\* processBlock has received.
C11_Backpressure ==
    /\ [](/\ Len(blockChan) <= QueueCap
          /\ Len(changesChan) <= QueueCap
          /\ blocksFetched <= Len(processed) + QueueCap + 1)
    /\ [][/\ (getPc = "send" /\ Len(blockChan) = QueueCap) => UNCHANGED getVars
          /\ (procPc = "send" /\ Len(changesChan) = QueueCap) => UNCHANGED procVars]_vars
C11_Witness ==
    /\ getPc = "send" /\ Len(blockChan) = QueueCap
    /\ blocksFetched = Len(processed) + QueueCap + 1

\* The heights below h in increasing order: the blocks read before a failure at h.
Below(h) == [i \in 1..h |-> i - 1]
\* The chain repo holds exactly the Extractor's non-empty batches of the
\* heights below h.
SavedBelow(h) ==
    /\ DOMAIN repo = {k \in 0..(h - 1) : ExpectedBatch(ledger, k) # <<>>}
    /\ \A k \in DOMAIN repo : repo[k] = ExpectedBatch(ledger, k)

\* C12: when BlockByHeight fails at height ht, getBlock pushes no block of
\* height ht or above and closes blockChan; unless the extract stage panics or
\* the persist stage fails, wait() then returns, with every block below ht
\* processed, changesChan closed and every batch of those blocks saved.
C12_ReadFailureDrains ==
    /\ [](readFailed =>
            /\ \A i \in 1..Len(sent) : sent[i] < ht
            /\ getPc = "done" => blockChanClosed /\ sent = Below(ht))
    /\ []((readFailed /\ waited /\ ~saveStopped /\ ~Panicked) =>
            /\ getPc = "done" /\ procPc = "done" /\ savePc = "done"
            /\ blockChanClosed /\ changesChanClosed
            /\ processed = Below(ht)
            /\ changesSaved = Len(pushed)
            /\ SavedBelow(ht))
    /\ (readFailed ~> (saveStopped \/ Panicked \/ waited))
C12_Witness ==
    /\ readFailed /\ waited /\ ~saveStopped /\ ~Panicked
    /\ ht = 2 /\ Len(ledger) = MaxTip /\ changesSaved = 1

\* The view processBlock holds when it comes to transaction k of the block of
\* height h: the blocks below h and the transactions before k have gone through
\* the loop body.
ViewBeforeTx(l, h, k) ==
    BlockChanges(ExtractUpTo(l, h - 1).view,
                 [Height |-> h, Transactions |-> SubSeq(BlockByHeight(l, h).Transactions, 1, k - 1)],
                 1, <<>>).view

\* C13: when the inputs of a non-coinbase transaction of a processed block are
\* looked up, the view holds no output of that transaction: the outputs of a
\* transaction enter the view only after its inputs are resolved.
C13_OutputsRegisteredAfterInputs ==
    \A p \in 1..Len(processed) :
        LET txs == BlockByHeight(ledger, processed[p]).Transactions
        IN  \A k \in 1..Len(txs) :
                ~IsCoinBase(txs[k]) =>
                    \A e \in LookupView(ViewBeforeTx(ledger, processed[p], k), txs[k]) :
                        e.op.hash # txs[k].hash

\* The outpoint names an output of the ledger.
Resolvable(l, op) ==
    /\ op.hash[1] \in 0..BestHeight(l)
    /\ (op.hash[2] + 1) \in 1..Len(BlockByHeight(l, op.hash[1]).Transactions)
    /\ (op.index + 1) \in
          1..Len(BlockByHeight(l, op.hash[1]).Transactions[op.hash[2] + 1].TxOut)
\* A non-coinbase transaction of the block of height h consumes or produces an
\* output whose script is claim-shaped but malformed.
MalformedSite(l, h) ==
    LET txs == BlockByHeight(l, h).Transactions
    IN  \E k \in 1..Len(txs) :
            /\ ~IsCoinBase(txs[k])
            /\ \/ \E n \in 1..Len(txs[k].TxOut) : txs[k].TxOut[n].PkScript.kind = "malformed"
               \/ \E n \in 1..Len(txs[k].TxIn) :
                      /\ Resolvable(l, txs[k].TxIn[n])
                      /\ LedgerScript(l, txs[k].TxIn[n]).kind = "malformed"
\* Every Change record that has left the Extractor, and the heights that have
\* reached the change queue or the chain repo.
Emitted ==
    UNION {{pushed[b][i] : i \in 1..Len(pushed[b])} : b \in 1..Len(pushed)}
        \cup {changes[i] : i \in 1..Len(changes)}
BatchHeights ==
    {c.Height : c \in Emitted} \cup DOMAIN repo
        \cup {saveLog[i].height : i \in 1..Len(saveLog)}

\* C14: a block in which the Extractor meets a claim-shaped but malformed
\* script, on a consumed input or on a produced output, ends extraction: the
\* block is not counted as processed, nothing is processed after it, no batch of
\* its height is pushed or saved, and no Change record names a malformed script.
C14_MalformedScriptIsFatal ==
    /\ \A p \in 1..Len(processed) :
          MalformedSite(ledger, processed[p]) =>
              /\ Panicked /\ p = Len(processed)
              /\ blocksProcessed = p - 1
              /\ processed[p] \notin BatchHeights
    /\ \A c \in Emitted : LedgerScript(ledger, c.OutPoint).kind = "claim"
C14_Witness ==
    /\ Panicked /\ Len(pushed) >= 1
    /\ ledger[processed[Len(processed)]] = "cbbad"

\* Input n of transaction k of the block of height h names no output the chain
\* holds up to and including that transaction.
Unresolved(l, h, k, op) ==
    ~(/\ Resolvable(l, op)
      /\ \/ op.hash[1] < h
         \/ op.hash[1] = h /\ op.hash[2] + 1 <= k)
UnresolvedSite(l, h) ==
    LET txs == BlockByHeight(l, h).Transactions
    IN  \E k \in 1..Len(txs) :
            /\ ~IsCoinBase(txs[k])
            /\ \E n \in 1..Len(txs[k].TxIn) : Unresolved(l, h, k, txs[k].TxIn[n])

\* C15: a block with a non-coinbase transaction one of whose inputs has no entry
\* in the view ends extraction: the block is not counted as processed, nothing is
\* processed after it, no batch of its height is pushed or saved, and every
\* spend record names an output that exists.
C15_UnresolvedInputIsFatal ==
    /\ \A p \in 1..Len(processed) :
          UnresolvedSite(ledger, processed[p]) =>
              /\ Panicked /\ p = Len(processed)
              /\ blocksProcessed = p - 1
              /\ processed[p] \notin BatchHeights
    /\ \A c \in Emitted : IsSpend(c) => Resolvable(ledger, c.OutPoint)
C15_Witness ==
    /\ Panicked /\ Len(processed) = 3
    /\ ledger[2] = "spend" /\ UnresolvedSite(ledger, 2)

\* The classification by opcode, for a consumed input and for a produced output.
SpendTypeOf ==
    "OP_CLAIMNAME" :> "SpendClaim" @@ "OP_UPDATECLAIM" :> "SpendClaim"
        @@ "OP_SUPPORTCLAIM" :> "SpendSupport"
CreateTypeOf ==
    "OP_CLAIMNAME" :> "AddClaim" @@ "OP_UPDATECLAIM" :> "UpdateClaim"
        @@ "OP_SUPPORTCLAIM" :> "AddSupport"
\* The ClaimID of a record for script pk at outpoint op: derived from the
\* outpoint for the create-opcode, the script's own otherwise.
ClaimIDOf(pk, op) ==
    IF pk.opcode = "OP_CLAIMNAME" THEN <<"claimID", op.hash, op.index>>
    ELSE <<"claimID", pk.claimID>>
\* The record the classification gives for claim site <<k, side, n>> of the
\* block of height h.
SiteRecord(l, h, site) ==
    LET tx == BlockByHeight(l, h).Transactions[site[1]]
    IN  IF site[2] = 0
        THEN LET op == tx.TxIn[site[3]]
                 pk == LedgerScript(l, op)
             IN  [Height |-> h, Name |-> pk.name, OutPoint |-> op, Amount |-> 0,
                  Type |-> SpendTypeOf[pk.opcode], ClaimID |-> ClaimIDOf(pk, op)]
        ELSE LET op == [hash |-> tx.hash, index |-> site[3] - 1]
                 pk == tx.TxOut[site[3]].PkScript
             IN  [Height |-> h, Name |-> pk.name, OutPoint |-> op,
                  Amount |-> tx.TxOut[site[3]].Value,
                  Type |-> CreateTypeOf[pk.opcode], ClaimID |-> ClaimIDOf(pk, op)]

\* C16: the records of every batch are exactly the records the classification
\* by opcode gives for the claim-bearing inputs and outputs of the non-coinbase
\* transactions of its block, one each: type, ClaimID, Amount (zero for a spend,
\* the output value otherwise), the block's height and the script's name.
C16_ClassifiedByOpcode ==
    \A b \in 1..Len(pushed) :
        LET h == pushed[b][1].Height
        IN  /\ {pushed[b][i] : i \in 1..Len(pushed[b])}
                  = {SiteRecord(ledger, h, site) : site \in ClaimSites(ledger, h)}
            /\ Len(pushed[b]) = Cardinality(ClaimSites(ledger, h))
C16_Witness ==
    \E b \in 1..Len(pushed) :
        /\ Len(pushed[b]) = 6
        /\ <<pushed[b][1].Type, pushed[b][2].Type, pushed[b][3].Type>>
              = <<"AddClaim", "AddSupport", "SpendSupport">>
        /\ <<pushed[b][4].Type, pushed[b][5].Type, pushed[b][6].Type>>
              = <<"UpdateClaim", "SpendClaim", "SpendClaim">>
        /\ pushed[b][5].ClaimID # pushed[b][6].ClaimID

\* The height of the last chainRepo.Load at or before position p of the calls.
LastLoaded(p) ==
    calls[CHOOSE q \in 1..p :
              /\ calls[q].call = "Load"
              /\ \A r \in (q + 1)..p : calls[r].call # "Load"].height

\* C17: for --from F --to T with 0 <= F < T, in every replay step the height
\* given to Load is the claim trie's Height() after that step's AppendBlock, the
\* height of the block fetched and compared.
C17_LoadedHeightIsTrieHeight ==
    (0 <= fromHeight /\ fromHeight < toHeightFlag) =>
        \A p \in 1..Len(calls) :
            calls[p].call \in {"BlockByHeight", "Compare"} =>
                /\ calls[p].height = LastLoaded(p)
                /\ p = Len(calls) => ct.height = LastLoaded(p)

\* The blocks processBlock has got through that have claim activity, in order.
ActiveBlocks ==
    SelectSeq(SubSeq(processed, 1, blocksProcessed),
              LAMBDA h : ClaimSites(ledger, h) # {})
\* The batches processBlock has produced: those sent and the one in hand.
Produced == IF procPc = "send" THEN Append(pushed, changes) ELSE pushed

\* C18: every batch sent on changesChan is non-empty and all its records carry
\* the height of the one block it was extracted from; there is one batch per
\* processed block with claim activity and none for any other block; Save is
\* called with the height every record of its batch carries.
C18_OneBatchPerActiveBlock ==
    /\ \A b \in 1..Len(pushed) : Len(pushed[b]) >= 1
    /\ \A q \in 1..Len(changesChan) : Len(changesChan[q]) >= 1
    /\ Len(Produced) = Len(ActiveBlocks)
    /\ \A b \in 1..Len(Produced) :
          \A i \in 1..Len(Produced[b]) : Produced[b][i].Height = ActiveBlocks[b]
    /\ \A i \in 1..Len(saveLog) :
          /\ ClaimSites(ledger, saveLog[i].height) # {}
          /\ \A j \in 1..Len(pushed[i]) : pushed[i][j].Height = saveLog[i].height
    /\ \A k \in DOMAIN repo :
          /\ Len(repo[k]) >= 1
          /\ \A j \in 1..Len(repo[k]) : repo[k][j].Height = k
C18_Witness ==
    /\ savePc = "done" /\ changesSaved = 1 /\ DOMAIN repo = {2}
    /\ blocksProcessed = 3 /\ Len(ledger) = 3
    /\ ledger[1] = "empty" /\ ledger[2] = "two"

\* C19: within a run saveChanges calls Save with strictly increasing heights,
\* whatever the interleaving of the three goroutines: no height twice, and
\* never a height after a greater one.
C19_SaveHeightsIncrease ==
    \A i, j \in 1..Len(saveLog) : i < j => saveLog[i].height < saveLog[j].height
C19_Witness ==
    /\ Len(saveLog) = 1 /\ saveLog[1].ok /\ saveLog[1].height = 1
    /\ Len(changesChan) = 2
    /\ getPc = "done"

\* processBlock has left its loop, by returning or by panicking.
ProcessBlockOver(pc) == pc \in {"done", "panic"}
\* A channel is closed only by its sender leaving (its sender's last step), and
\* only once; after that nothing is sent on it.
ClosedBySenderOnce ==
    [][/\ blockChanClosed' # blockChanClosed =>
            ~blockChanClosed /\ getPc # "done" /\ getPc' = "done"
       /\ changesChanClosed' # changesChanClosed =>
            ~changesChanClosed /\ ~ProcessBlockOver(procPc) /\ ProcessBlockOver(procPc')
       /\ (getPc # "done" /\ getPc' = "done") => ~blockChanClosed
       /\ (~ProcessBlockOver(procPc) /\ ProcessBlockOver(procPc')) => ~changesChanClosed
       /\ blockChanClosed =>
            getPc = "done" /\ getPc' = "done" /\ sent' = sent
            /\ Len(blockChan') <= Len(blockChan)
       /\ changesChanClosed =>
            ProcessBlockOver(procPc) /\ procPc' = procPc /\ pushed' = pushed
            /\ Len(changesChan') <= Len(changesChan)]_vars

\* C20: under every interleaving and every combination of failures each channel
\* is closed exactly once, by its sender and after its sender's last send, and
\* changesChan only after blockChan is closed and drained.
C20_QueuesClosedExactlyOnce ==
    /\ ClosedBySenderOnce
    /\ [](changesChanClosed => blockChanClosed /\ blockChan = <<>>)
    /\ <>(Panicked \/ (blockChanClosed /\ changesChanClosed))

====
